---- MODULE Spec2Model ----
(***************************************************************************)
(* Model of notebooks/2d_simulation.ipynb: two simulated motors (SynAxis)  *)
(* named x and y, the function centroid_from_motor, the Imager device with *)
(* its two SynSignal components and its trigger override, the example step *)
(* scan, and the notebook cells that create the motors, the Imager class   *)
(* and the imager instance.                                                *)
(*                                                                         *)
(* Numbers.  The notebook computes with Python floats.  Every number that  *)
(* occurs here is a multiple of 1/(ScanNum-1) pixel (the scan's points are *)
(* numpy.linspace(-100, 800, 50)), so positions, sizes and centroids are   *)
(* integers counting units of 1/Den pixel; scales are plain integers.      *)
(* centroid_from_motor only multiplies and compares, so the unit does not  *)
(* change its outcome.                                                     *)
(***************************************************************************)
EXTENDS Integers, Sequences, FiniteSets

VARIABLES
    x, y,          \* the motor objects the notebook names x and y refer to
    position,      \* position[m]: SynAxis.position of every live motor object m
    ImagerClass,   \* the motors captured by the class's two partial(...) funcs
    imager,        \* the instance named imager: bound motors and stored readings
    lastop,        \* the operation executed last
    prevop,        \* the operation that preceded a trigger or a direct call
    size, scale,   \* keyword arguments of a direct centroid_from_motor call
    out,           \* out[n]: value returned by the last direct call on motor n
    pc, idx, docs, \* the step scan: position in the plan, step, recorded events
    runs           \* how many times the motor-creation cell was re-run

vars == <<x, y, position, ImagerClass, imager, lastop, prevop, size, scale, out,
          pc, idx, docs, runs>>

----------------------------------------------------------------------------
(* Program constants *)

ScreenPixels == 640
DefaultScale == 1
ScanStart == -100
ScanStop == 800
ScanNum == 50

Den == ScanNum - 1
DefaultSize == ScreenPixels * Den

(* Bounds of the model *)

MaxInner == 1
MaxCellRuns == 1

\* Positions a motor is told to go to: just off-screen below, the lower edge,
\* interior points, the upper edge, just off-screen above.
MovePoints == {-1} \cup (0 .. MaxInner) \cup {DefaultSize, DefaultSize + 1}

\* Keyword arguments tried in direct calls.
Scales == {-1, 0, DefaultScale, 2}
Sizes == {-1, 0, 1, 2, DefaultSize, 2 * DefaultSize}

MotorNames == {"x", "y"}

----------------------------------------------------------------------------
(* centroid_from_motor *)

\* Faulty variants of centroid_from_motor, used to test the properties:
\* the upper edge counted as off-screen,
centroid_from_motor_edge_off(motor, sz, sc) ==
    LET pos == position[motor]
        centroid == pos * sc
    IN  IF centroid < 0 \/ centroid >= sz THEN 0 ELSE centroid

\* no test of the lower edge,
centroid_from_motor_no_floor(motor, sz, sc) ==
    LET pos == position[motor]
        centroid == pos * sc
    IN  IF centroid > sz THEN 0 ELSE centroid

\* and the centroid held at the upper edge instead of reset to 0.
centroid_from_motor_saturating(motor, sz, sc) ==
    LET pos == position[motor]
        centroid == pos * sc
    IN  IF centroid < 0 THEN 0 ELSE IF centroid > sz THEN sz ELSE centroid

centroid_from_motor(motor, sz, sc) ==
    LET pos == position[motor]
        centroid == pos * sc
    IN  IF centroid < 0 \/ centroid > sz THEN 0 ELSE centroid

\* The SynSignal of a component evaluates partial(centroid_from_motor, m)
\* with the default size and scale.
SignalFunc(m) == centroid_from_motor(m, DefaultSize, DefaultScale)

Named(n) == IF n = "x" THEN x ELSE y

\* Objects still referenced after a cell ran; the others are collected.
Live(nx, ny, cls, img) ==
    {nx, ny, cls.x_centroid, cls.y_centroid, img.xm, img.ym}

----------------------------------------------------------------------------
(* Initial state: the notebook executed once from top to bottom *)

NoScan == pc = "idle" /\ idx = 0 /\ docs = <<>>
NoCall == out = [n \in MotorNames |-> <<>>]

InitNotebook ==
    /\ x = 1 /\ y = 2
    /\ position = [m \in {1, 2} |-> 0]
    /\ ImagerClass = [x_centroid |-> 1, y_centroid |-> 2]
    /\ imager = [xm |-> 1, ym |-> 2, x_centroid |-> 0, y_centroid |-> 0]
    /\ lastop = "init" /\ prevop = "-"
    /\ size = DefaultSize /\ scale = DefaultScale
    /\ NoCall /\ NoScan
    /\ runs = 0

----------------------------------------------------------------------------
(* Motor moves and the imager trigger *)

\* The history kept for the properties: the last operation and, when that is
\* a trigger or a direct call, the operation before it.
Op(name) ==
    /\ lastop' = name
    /\ prevop' = IF name \in {"trigger", "call"} THEN lastop ELSE "-"

\* x.set(p) / y.set(p): the SynAxis goes where it is told.
MoveX(p) ==
    /\ pc = "idle"
    /\ position' = [position EXCEPT ![x] = p]
    /\ Op("move_x")
    /\ UNCHANGED <<x, y, ImagerClass, imager, size, scale, out, pc, idx, docs, runs>>

MoveY(p) ==
    /\ pc = "idle"
    /\ position' = [position EXCEPT ![y] = p]
    /\ Op("move_y")
    /\ UNCHANGED <<x, y, ImagerClass, imager, size, scale, out, pc, idx, docs, runs>>

\* Faulty variants of the component triggers, used to test the properties: a
\* component that is not triggered, y_centroid computed from x's motor, and
\* x_centroid computed from whatever motor the name x refers to now.
x_centroid_trigger_skipped(img) == img

y_centroid_trigger_skipped(img) == img

y_centroid_trigger_from_x(img) == [img EXCEPT !.y_centroid = SignalFunc(img.xm)]

x_centroid_trigger_by_name(img) == [img EXCEPT !.x_centroid = SignalFunc(x)]

\* SynSignal.trigger of each component: the signal stores func(), the
\* centroid of the motor its partial(...) captured.
x_centroid_trigger(img) == [img EXCEPT !.x_centroid = SignalFunc(img.xm)]

y_centroid_trigger(img) == [img EXCEPT !.y_centroid = SignalFunc(img.ym)]

\* Imager.trigger: both components are triggered, then the base device's
\* trigger returns its status.
Trigger ==
    /\ pc = "idle"
    /\ imager' = y_centroid_trigger(x_centroid_trigger(imager))
    /\ Op("trigger")
    /\ UNCHANGED <<x, y, position, ImagerClass, size, scale, out, pc, idx, docs, runs>>

Next == (\E p \in MovePoints : MoveX(p)) \/ (\E p \in MovePoints : MoveY(p)) \/ Trigger

Spec == InitNotebook /\ [][Next]_vars

----------------------------------------------------------------------------
(* Direct evaluation of centroid_from_motor(x or y, size=size, scale=scale) *)

\* Faulty variant, used to test the properties: the call writes the clamped
\* value back to the motor.
CallCentroidSetsMotor(n) ==
    /\ pc = "idle"
    /\ out' = [out EXCEPT ![n] = <<centroid_from_motor(Named(n), size, scale)>>]
    /\ position' = [position EXCEPT ![Named(n)] = out'[n][1]]
    /\ Op("call")
    /\ UNCHANGED <<x, y, ImagerClass, imager, size, scale, pc, idx, docs, runs>>

CallCentroid(n) ==
    /\ pc = "idle"
    /\ out' = [out EXCEPT ![n] = <<centroid_from_motor(Named(n), size, scale)>>]
    /\ Op("call")
    /\ UNCHANGED <<x, y, position, ImagerClass, imager, size, scale, pc, idx, docs, runs>>

\* The values a signal can hold after moves and triggers.
Readings == {IF p < 0 \/ p > DefaultSize THEN 0 ELSE p : p \in MovePoints}

\* The motors have been moved and the imager triggered at some point; the
\* keyword arguments of the direct calls are chosen.
InitFn ==
    /\ x = 1 /\ y = 2
    /\ position \in [{1, 2} -> MovePoints]
    /\ ImagerClass = [x_centroid |-> 1, y_centroid |-> 2]
    /\ \E rx \in Readings, ry \in Readings :
          imager = [xm |-> 1, ym |-> 2, x_centroid |-> rx, y_centroid |-> ry]
    /\ lastop = "move_x" /\ prevop = "-"
    /\ size \in Sizes /\ scale \in Scales
    /\ NoCall /\ NoScan
    /\ runs = 0

NextFn == (\E n \in MotorNames : CallCentroid(n)) \/ Trigger

SpecFn == InitFn /\ [][NextFn]_vars

----------------------------------------------------------------------------
(* RE(scan([imager], x, -100, 800, 50)): at each of the ScanNum points the  *)
(* motor x is moved, the imager is triggered, and the imager and the motor *)
(* are read into one event.                                                *)

ScanPoint(i) == ScanStart * Den + i * (ScanStop - ScanStart)

StartScan ==
    /\ pc = "idle"
    /\ pc' = "move" /\ idx' = 0 /\ docs' = <<>>
    /\ Op("scan")
    /\ UNCHANGED <<x, y, position, ImagerClass, imager, size, scale, out, runs>>

ScanMove ==
    /\ pc = "move"
    /\ position' = [position EXCEPT ![x] = ScanPoint(idx)]
    /\ pc' = "trigger"
    /\ Op("move_x")
    /\ UNCHANGED <<x, y, ImagerClass, imager, size, scale, out, idx, docs, runs>>

\* Faulty variant, used to test the properties: only the base device's
\* trigger runs, the components are not triggered.
ScanTriggerBaseOnly ==
    /\ pc = "trigger"
    /\ pc' = "read"
    /\ Op("trigger")
    /\ UNCHANGED <<x, y, position, ImagerClass, imager, size, scale, out, idx, docs, runs>>

ScanTrigger ==
    /\ pc = "trigger"
    /\ imager' = y_centroid_trigger(x_centroid_trigger(imager))
    /\ pc' = "read"
    /\ Op("trigger")
    /\ UNCHANGED <<x, y, position, ImagerClass, size, scale, out, idx, docs, runs>>

ScanRead ==
    /\ pc = "read"
    /\ docs' = Append(docs, [x_centroid |-> imager.x_centroid,
                             y_centroid |-> imager.y_centroid,
                             x |-> position[x]])
    /\ idx' = idx + 1
    /\ pc' = IF idx + 1 = ScanNum THEN "done" ELSE "move"
    /\ Op("read")
    /\ UNCHANGED <<x, y, position, ImagerClass, imager, size, scale, out, runs>>

\* Before the scan the motors have been moved and the imager triggered.
InitScan ==
    /\ x = 1 /\ y = 2
    /\ position \in [{1, 2} -> MovePoints]
    /\ ImagerClass = [x_centroid |-> 1, y_centroid |-> 2]
    /\ \E rx \in Readings, ry \in Readings :
          imager = [xm |-> 1, ym |-> 2, x_centroid |-> rx, y_centroid |-> ry]
    /\ lastop = "move_x" /\ prevop = "-"
    /\ size = DefaultSize /\ scale = DefaultScale
    /\ NoCall /\ NoScan
    /\ runs = 0

NextScan == StartScan \/ ScanMove \/ ScanTrigger \/ ScanRead

SpecScan == InitScan /\ [][NextScan]_vars

----------------------------------------------------------------------------
(* Re-execution of notebook cells *)

Collect(nx, ny, cls, img) ==
    [m \in Live(nx, ny, cls, img) \cap DOMAIN position |-> position[m]]

\* x = SynAxis(name='x'); y = SynAxis(name='y'): two new motors at 0.
RunMotorCell ==
    /\ pc = "idle" /\ runs < MaxCellRuns
    /\ LET nx == 2 * runs + 3
           ny == 2 * runs + 4
           kept == Collect(nx, ny, ImagerClass, imager)
       IN  /\ x' = nx /\ y' = ny
           /\ position' = [m \in DOMAIN kept \cup {nx, ny} |->
                              IF m \in {nx, ny} THEN 0 ELSE kept[m]]
    /\ runs' = runs + 1
    /\ Op("motor_cell")
    /\ UNCHANGED <<ImagerClass, imager, size, scale, out, pc, idx, docs>>

\* class Imager(Device): the class body evaluates partial(centroid_from_motor, x)
\* and partial(centroid_from_motor, y) with the motors x and y name now.
RunClassCell ==
    /\ pc = "idle"
    /\ ImagerClass' = [x_centroid |-> x, y_centroid |-> y]
    /\ position' = Collect(x, y, ImagerClass', imager)
    /\ Op("class_cell")
    /\ UNCHANGED <<x, y, imager, size, scale, out, pc, idx, docs, runs>>

\* imager = Imager(name='imager'): each SynSignal is built from the class's
\* func and starts with the value func() returns.
NewImager ==
    [xm |-> ImagerClass.x_centroid, ym |-> ImagerClass.y_centroid,
     x_centroid |-> SignalFunc(ImagerClass.x_centroid),
     y_centroid |-> SignalFunc(ImagerClass.y_centroid)]

RunImagerCell ==
    /\ pc = "idle"
    /\ imager' = NewImager
    /\ position' = Collect(x, y, ImagerClass, imager')
    /\ Op("imager_cell")
    /\ UNCHANGED <<x, y, ImagerClass, size, scale, out, pc, idx, docs, runs>>

\* Positions tried between cell executions: the initial one, on-screen ones
\* and an off-screen one.
CellPoints == {0, 1, DefaultSize, DefaultSize + 1}

NextCells ==
    \/ \E p \in CellPoints : MoveX(p)
    \/ \E p \in CellPoints : MoveY(p)
    \/ Trigger
    \/ RunMotorCell
    \/ RunClassCell
    \/ RunImagerCell

SpecCells == InitNotebook /\ [][NextCells]_vars

----------------------------------------------------------------------------
(* Properties *)

\* What the contract says a call returns for a centroid c and a screen size sz.
Clamped(c, sz) == IF 0 <= c /\ c <= sz THEN c ELSE 0

Called(n) == out[n] # <<>>
Returned(n) == out[n][1]

\* C1: for every motor position, scale and size, centroid_from_motor returns
\* position * scale when 0 <= position * scale <= size, and 0 otherwise.
C1_CentroidContract ==
    \A n \in MotorNames :
        Called(n) => Returned(n) = Clamped(position[Named(n)] * scale, size)

\* x was evaluated exactly on the upper edge and returned the edge, y was
\* evaluated off-screen and returned 0.
C1_Witness ==
    /\ Called("x") /\ Called("y")
    /\ size > 0 /\ position[x] * scale = size /\ Returned("x") = size
    /\ position[y] * scale > size /\ Returned("y") = 0

\* C2 as stated: in every reachable state each reading is the centroid of the
\* current position of its motor (together with C3, which makes every position
\* p occur with the reading of p, this is what "equal motor positions give
\* equal readings" amounts to).
C2_ReadingsFollowPosition ==
    /\ imager.x_centroid = centroid_from_motor(x, DefaultSize, DefaultScale)
    /\ imager.y_centroid = centroid_from_motor(y, DefaultSize, DefaultScale)

\* C2 amended: in every state in which no motor has moved since the imager was
\* last triggered, each reading is the centroid of the current position of
\* its motor.
C2_ReadingsFollowPositionWhenTriggered ==
    lastop = "trigger" => C2_ReadingsFollowPosition

C2_Witness ==
    /\ lastop = "trigger" /\ prevop = "move_y"
    /\ position[x] = DefaultSize /\ imager.x_centroid = DefaultSize
    /\ position[y] = 1 /\ imager.y_centroid = 1

\* C3: every Imager.trigger() stores in x_centroid the centroid of motor x's
\* position at trigger time and in y_centroid that of motor y's, whatever
\* preceded it.
C3_TriggerUpdatesBoth ==
    [][lastop' = "trigger" =>
         /\ imager'.x_centroid = centroid_from_motor(x, DefaultSize, DefaultScale)
         /\ imager'.y_centroid = centroid_from_motor(y, DefaultSize, DefaultScale)
         /\ position' = position]_vars

\* Both motors were moved after the previous trigger, and the trigger picked
\* both new positions up.
C3_Witness ==
    /\ lastop = "trigger" /\ prevop = "move_x"
    /\ position[x] = 1 /\ imager.x_centroid = 1
    /\ position[y] = DefaultSize /\ imager.y_centroid = DefaultSize

\* C4 as stated: a trigger that follows a move of x leaves y_centroid as it
\* was, and a trigger that follows a move of y leaves x_centroid as it was.
C4_OtherAxisUnchanged ==
    [][/\ (lastop = "move_x" /\ lastop' = "trigger") =>
              imager'.y_centroid = imager.y_centroid
       /\ (lastop = "move_y" /\ lastop' = "trigger") =>
              imager'.x_centroid = imager.x_centroid]_vars

\* C4 amended: a trigger that follows a move of x sets y_centroid to the
\* centroid of motor y's position, so it leaves y_centroid as it was whenever
\* y_centroid was up to date with motor y; likewise for x after a move of y.
C4_OtherAxisUnchangedWhenFresh ==
    [][/\ (lastop = "move_x" /\ lastop' = "trigger") =>
              /\ imager'.y_centroid = centroid_from_motor(y, DefaultSize, DefaultScale)
              /\ imager.y_centroid = centroid_from_motor(y, DefaultSize, DefaultScale)
                    => imager'.y_centroid = imager.y_centroid
       /\ (lastop = "move_y" /\ lastop' = "trigger") =>
              /\ imager'.x_centroid = centroid_from_motor(x, DefaultSize, DefaultScale)
              /\ imager.x_centroid = centroid_from_motor(x, DefaultSize, DefaultScale)
                    => imager'.x_centroid = imager.x_centroid]_vars

\* y was read, then x was moved to another on-screen point and the imager
\* triggered: x_centroid follows x, y_centroid kept its non-zero value.
C4_Witness ==
    /\ lastop = "trigger" /\ prevop = "move_x"
    /\ position[x] = DefaultSize /\ imager.x_centroid = DefaultSize
    /\ position[y] = 1 /\ imager.y_centroid = 1

\* C5: an evaluation of centroid_from_motor, direct or through Imager.trigger,
\* changes no motor position and nothing else but the value it produces, and
\* an evaluation repeated with no move in between produces the same value.
Untouched == <<x, y, position, ImagerClass, size, scale, pc, idx, docs, runs>>

C5_Pure ==
    [][/\ lastop' = "call" =>
              /\ UNCHANGED <<Untouched, imager>>
              /\ \A n \in MotorNames : Called(n) => out'[n] = out[n]
       /\ lastop' = "trigger" =>
              /\ UNCHANGED <<Untouched, out>>
              /\ lastop = "trigger" => imager' = imager]_vars

\* x was evaluated twice in a row (y never was) and x, on-screen and away from
\* 0, still is where it was; the imager was triggered before that.
C5_Witness ==
    /\ lastop = "call" /\ prevop = "call"
    /\ Called("x") /\ ~Called("y")
    /\ position[x] = DefaultSize /\ Returned("x") = DefaultSize
    /\ imager.x_centroid = DefaultSize

\* C6: for size >= 0 the value returned lies in [0, size], a centroid equal to
\* 0 or to size being returned as it is; and after a trigger both readings of
\* the imager lie in [0, 640 pixels].
C6_WithinScreen ==
    /\ \A n \in MotorNames :
          (Called(n) /\ size >= 0) =>
              /\ 0 <= Returned(n) /\ Returned(n) <= size
              /\ position[Named(n)] * scale = size => Returned(n) = size
              /\ position[Named(n)] * scale = 0 => Returned(n) = 0
    /\ lastop = "trigger" =>
          /\ 0 <= imager.x_centroid /\ imager.x_centroid <= DefaultSize
          /\ 0 <= imager.y_centroid /\ imager.y_centroid <= DefaultSize

\* A call exactly on the upper edge returned the edge, a call below the screen
\* returned 0, and the triggered imager reads the upper edge.
C6_Witness ==
    /\ Called("x") /\ Called("y")
    /\ size > 0 /\ position[x] * scale = size /\ Returned("x") = size
    /\ position[y] * scale < 0 /\ Returned("y") = 0
    /\ lastop = "trigger" /\ imager.x_centroid = DefaultSize

\* C7: in the example step scan the x_centroid recorded at a step is the
\* centroid of the point x was moved to at that step (the point itself inside
\* [0, 640 pixels], 0 outside), the motor reads that point, and y_centroid is
\* the same in every event.
C7_ScanRecordsCurrentStep ==
    /\ \A i \in 1 .. Len(docs) :
          /\ docs[i].x = ScanPoint(i - 1)
          /\ docs[i].x_centroid = Clamped(ScanPoint(i - 1), ScreenPixels * Den)
          /\ docs[i].y_centroid = docs[1].y_centroid
    /\ pc = "done" => Len(docs) = ScanNum

\* The scan ran to its end: the first and last points were off-screen and
\* recorded 0, a point in between recorded itself, and y_centroid was
\* recorded as motor y's 1.
C7_Witness ==
    /\ pc = "done"
    /\ ScanPoint(0) < 0 /\ docs[1].x_centroid = 0
    /\ ScanPoint(ScanNum - 1) > ScreenPixels * Den /\ docs[ScanNum].x_centroid = 0
    /\ \E i \in 2 .. ScanNum - 1 : docs[i].x_centroid = docs[i].x /\ docs[i].x > 0
    /\ position[y] = 1 /\ docs[ScanNum].y_centroid = 1

OnScreen(n) == 0 <= position[Named(n)] * scale /\ position[Named(n)] * scale <= size

\* C8: for scale > 0 the value returned is strictly increasing in the position
\* over the on-screen range and a non-zero value r comes from the one position
\* r / scale, while 0 is returned for position 0 and for every off-screen
\* position, so that just past the upper edge the value drops to 0.
C8_InvertibleOnScreen ==
    scale > 0 =>
        /\ \A n \in MotorNames :
              Called(n) =>
                  /\ Returned(n) # 0 =>
                        /\ Returned(n) = position[Named(n)] * scale
                        /\ 0 < Returned(n) /\ Returned(n) <= size
                  /\ position[Named(n)] = 0 => Returned(n) = 0
                  /\ ~OnScreen(n) => Returned(n) = 0
        /\ (Called("x") /\ Called("y")) =>
              /\ (OnScreen("x") /\ OnScreen("y") /\ position[x] < position[y])
                    => Returned("x") < Returned("y")
              /\ (Returned("x") = Returned("y") /\ Returned("x") # 0)
                    => position[x] = position[y]

\* x on the upper edge returned size; y, one unit further, returned 0.
C8_Witness ==
    /\ scale > 0 /\ size > 0
    /\ Called("x") /\ Called("y")
    /\ position[x] * scale = size /\ Returned("x") = size
    /\ position[y] = position[x] + 1 /\ Returned("y") = 0

\* C9: the signals read the motors x and y named when the Imager class cell
\* ran.  Re-running the motor cell changes neither the class nor the instance;
\* while x (resp. y) names another motor than the one the class captured, a
\* new instance is bound to the captured motor, a trigger stores the centroid
\* of the motor the instance is bound to, and moving the new x (resp. y) changes neither a
\* reading nor the position of the motor the imager reads.
C9_ReadsCapturedMotors ==
    [][/\ lastop' = "motor_cell" =>
              /\ UNCHANGED <<ImagerClass, imager>>
              /\ x' \notin {imager.xm, ImagerClass.x_centroid}
              /\ y' \notin {imager.ym, ImagerClass.y_centroid}
              /\ position'[imager.xm] = position[imager.xm]
              /\ position'[imager.ym] = position[imager.ym]
       /\ lastop' = "imager_cell" =>
              /\ imager'.xm = ImagerClass.x_centroid
              /\ imager'.ym = ImagerClass.y_centroid
       /\ lastop' = "trigger" =>
              /\ imager'.x_centroid =
                    Clamped(position[imager'.xm] * DefaultScale, DefaultSize)
              /\ imager'.y_centroid =
                    Clamped(position[imager'.ym] * DefaultScale, DefaultSize)
       /\ (lastop' = "move_x" /\ x # imager.xm) =>
              /\ imager' = imager
              /\ position'[imager.xm] = position[imager.xm]
       /\ (lastop' = "move_y" /\ y # imager.ym) =>
              /\ imager' = imager
              /\ position'[imager.ym] = position[imager.ym]]_vars

\* The motor cell was re-run, a new imager was created without re-running the
\* class cell, the new x was moved on-screen and the imager triggered: it
\* still reads the old motor x, which is off-screen.
C9_Witness ==
    /\ runs = 1 /\ lastop = "trigger" /\ prevop = "move_x"
    /\ imager.xm # x /\ imager.xm = ImagerClass.x_centroid
    /\ position[x] = 1 /\ position[imager.xm] = DefaultSize + 1
    /\ imager.x_centroid = 0
    /\ position[y] = DefaultSize + 1 /\ position[imager.ym] = 1
    /\ imager.y_centroid = 1

====
